---- MODULE Spec2Model ----
(***************************************************************************)
(* Model of rpc_benchmark.py: the AsyncAuthServiceProxy JSON-RPC client.   *)
(*                                                                         *)
(* The proxy runs on one asyncio event loop: the code between two awaits   *)
(* is one atomic step.  A call of __call__ suspends at three places: the   *)
(* acquire of the class-wide BoundedSemaphore (only when it is locked),    *)
(* the backoff asyncio.sleep and the await of client.post.  Each action    *)
(* below is one such atomic step of one call, or a constructor.            *)
(***************************************************************************)
EXTENDS Integers, Sequences, FiniteSets, TLC

(***************************************************************************)
(* Bounds of the model.                                                    *)
(***************************************************************************)
\* capacity of the gate; the program uses 1000 (line 19), the model a small
\* capacity so that more calls than permits can be launched
MAXIMUM_NUMBER_OF_CONCURRENT_RPC_REQUESTS == 2
\* number of tasks that may invoke __call__
NCalls == 3
\* number of tasks of the runs under the fair event loop
NLive == 3
\* number of tasks of the runs that construct and bind proxies
IdCalls == 2
\* number of proxy objects ever constructed
MaxHandles == 3
\* largest reconnect_amount given to a root proxy
MaxAmount == 3
\* largest reconnect_timeout given to a root proxy
MaxTimeout == 1

(***************************************************************************)
(* Program constants: the defaults of __init__.                            *)
(***************************************************************************)
DEFAULT_RECONNECT_TIMEOUT == 15
DEFAULT_RECONNECT_AMOUNT == 2
DEFAULT_REQUEST_TIMEOUT == 90
MISSING_RESULT_CODE == -343

(***************************************************************************)
(* Python and JSON values.                                                 *)
(***************************************************************************)
None == [t |-> "None"]
\* a key that a dict does not have
Missing == [t |-> "missing"]
JNum(n) == [t |-> "number", v |-> n]
JStr(words) == [t |-> "string", words |-> words]
JBool(b) == [t |-> "bool", v |-> b]
JErr(code, message) == [t |-> "object", code |-> code, message |-> message]
JHeight(n) == [t |-> "object", height |-> n]

ErrorCodes == {JNum(-32601)}
ErrorMessages == {JStr(<<"method", "not", "found">>)}
ErrorObjects == {JErr(c, m) : c \in ErrorCodes \cup {Missing}, m \in ErrorMessages \cup {Missing}}
ErrorScalars == {JNum(5), JBool(FALSE), JStr(<<"oops">>), JStr(<<"bad", "code">>)}
ErrorValues == ErrorObjects \cup ErrorScalars
ResultValues == {None, JNum(0), JHeight(12345)}

Envelope(error, result) == [t |-> "object", error |-> error, result |-> result]
Envelopes == {Envelope(e, r) : e \in ErrorValues \cup {None, Missing}, r \in ResultValues \cup {Missing}}
\* an HTTP body: not JSON at all, a JSON array, or a JSON object
Malformed == [t |-> "malformed"]
JArray == [t |-> "array"]
Bodies == {Malformed, JArray} \cup Envelopes

\* positional arguments of a call: plain JSON values, a decimal.Decimal
\* (in units of 10^-9), or an object json.dumps cannot encode
PlainArgs == [t |-> "plain"]
DecimalArg(n) == [t |-> "Decimal", v |-> n]
ObjectArg == [t |-> "pyobject"]
ArgValues == {PlainArgs, DecimalArg(1123456789), ObjectArg}

\* causes of a transport failure of client.post
TransportFaults == {"ConnectError", "ReadTimeout"}

Names == {"masternode", "top"}
\* names that start and end with two underscores
DunderNames == {"__len__"}

VARIABLES handles, calls, sem_value, sem_waiters, fut

vars == <<handles, calls, sem_value, sem_waiters, fut>>

CallIds == 1..NCalls

(***************************************************************************)
(* Pure functions.                                                         *)
(***************************************************************************)
Min(S) == CHOOSE x \in S : \A y \in S : x <= y

RECURSIVE Pow2(_)
Pow2(n) == IF n <= 0 THEN 1 ELSE 2 * Pow2(n - 1)

Contains(s, w) == \E k \in DOMAIN s.words : s.words[k] = w

Raised(exc) == [kind |-> "raised", exc |-> exc]
Returned(value) == [kind |-> "returned", value |-> value]
NoOutcome == [kind |-> "none"]

\* JSONRPCException.__init__: the exception built from rpc_error, or the
\* TypeError its own lookups raise when rpc_error is no dict
JSONRPCException(rpc_error) ==
    CASE rpc_error.t = "object" ->
           [kind |-> "raised", exc |-> "JSONRPCException", error |-> rpc_error,
            code |-> IF rpc_error.code # Missing THEN rpc_error.code ELSE None,
            message |-> IF rpc_error.message # Missing THEN rpc_error.message ELSE None]
      [] rpc_error.t = "string" ->
           \* rpc_error['message'] raises TypeError, which is caught; the
           \* 'in' tests are substring tests and a hit is then indexed
           IF Contains(rpc_error, "code") \/ Contains(rpc_error, "message")
           THEN Raised("TypeError")
           ELSE [kind |-> "raised", exc |-> "JSONRPCException", error |-> rpc_error,
                 code |-> None, message |-> None]
      [] OTHER ->
           \* 'code' in 5: argument of type 'int' is not iterable
           Raised("TypeError")

MissingResult == JErr(JNum(MISSING_RESULT_CODE), JStr(<<"missing", "JSON-RPC", "result">>))

\* an absent result is read as null: response_json.get('result')
Respond_absent_result_is_null(body) ==
    CASE body.t = "malformed" -> Raised("JSONDecodeError")
      [] body.t = "array" -> Raised("TypeError")
      [] OTHER ->
           IF body.error = Missing THEN Raised("KeyError")
           ELSE IF body.error # None THEN JSONRPCException(body.error)
           ELSE IF body.result = Missing THEN Returned(None)
           ELSE Returned(body.result)

\* the decoded envelope is returned, not its result
Respond_returns_envelope(body) ==
    CASE body.t = "malformed" -> Raised("JSONDecodeError")
      [] body.t = "array" -> Raised("TypeError")
      [] OTHER ->
           IF body.error = Missing THEN Raised("KeyError")
           ELSE IF body.error # None THEN JSONRPCException(body.error)
           ELSE IF body.result = Missing THEN JSONRPCException(MissingResult)
           ELSE Returned(body)

\* lines 103-110: what the call does with the body of a response
Respond(body) ==
    CASE body.t = "malformed" -> Raised("JSONDecodeError")
      [] body.t = "array" -> Raised("TypeError")
      [] OTHER ->
           IF body.error = Missing THEN Raised("KeyError")
           ELSE IF body.error # None THEN JSONRPCException(body.error)
           ELSE IF body.result = Missing THEN JSONRPCException(MissingResult)
           ELSE Returned(body.result)

\* whatever is not a Decimal is sent as its str()
EncodeDecimal_stringifies(o) ==
    IF o.t = "Decimal"
    THEN LET q == o.v \div 10
             r == o.v % 10
         IN  [t |-> "float", v |-> IF r > 5 \/ (r = 5 /\ q % 2 = 1) THEN q + 1 ELSE q]
    ELSE [t |-> "str", v |-> o.t]

\* EncodeDecimal: float(round(o, 8)) of a Decimal given in units of 10^-9,
\* as a float in units of 10^-8 (round half even); TypeError otherwise
EncodeDecimal(o) ==
    IF o.t = "Decimal"
    THEN LET q == o.v \div 10
             r == o.v % 10
         IN  [t |-> "float", v |-> IF r > 5 \/ (r = 5 /\ q % 2 = 1) THEN q + 1 ELSE q]
    ELSE Raised("TypeError")

\* json.dumps(..., default=EncodeDecimal) of the request
dumps(method, args, id) ==
    LET params == IF args.t = "plain" THEN args ELSE EncodeDecimal(args)
    IN  IF params = Raised("TypeError") THEN params
        ELSE [version |-> "1.1", method |-> method, params |-> params, id |-> id]

\* the first retry waits the base, not twice the base
SleepTime_from_base(reconnect_timeout, i) == reconnect_timeout * Pow2(i - 1)

\* sleep_time of attempt i
SleepTime(reconnect_timeout, i) == reconnect_timeout * Pow2(i)

\* one attempt more than reconnect_amount
InRange_inclusive(i, reconnect_amount) == i <= reconnect_amount

\* range(self.reconnect_amount)
InRange(i, reconnect_amount) == i < reconnect_amount

(***************************************************************************)
(* asyncio.BoundedSemaphore (CPython 3.11), the class attribute _semaphore *)
(* shared by every proxy.  S = [value, waiters, fut]: the counter, the     *)
(* deque of waiting futures (named by their call) and each future's state. *)
(***************************************************************************)
Sem == [value |-> sem_value, waiters |-> sem_waiters, fut |-> fut]

locked(S) ==
    S.value = 0 \/ \E k \in DOMAIN S.waiters : S.fut[S.waiters[k]] # "cancelled"

wake_up_next(S) ==
    LET pend == {k \in DOMAIN S.waiters : S.fut[S.waiters[k]] = "pending"}
    IN  IF pend = {} THEN S
        ELSE [S EXCEPT !.value = @ - 1, !.fut[S.waiters[Min(pend)]] = "result"]

release(S) == wake_up_next([S EXCEPT !.value = @ + 1])

Remove(seq, c) == SelectSeq(seq, LAMBDA w : w # c)

\* acquire() when the semaphore is not locked
acquire_now(S) == [S EXCEPT !.value = @ - 1]
\* acquire() when it is locked: a new future joins the deque
acquire_wait(S, c) == [S EXCEPT !.waiters = Append(@, c), !.fut[c] = "pending"]
\* acquire() after its future got a result
acquire_resume(S, c) ==
    LET T == [S EXCEPT !.waiters = Remove(@, c), !.fut[c] = "none"]
    IN  IF T.value > 0 THEN wake_up_next(T) ELSE T
\* acquire() when CancelledError is thrown into it: a future that already
\* had its result gives the permit back
acquire_cancelled(S, c) ==
    LET T == [S EXCEPT !.waiters = Remove(@, c), !.fut[c] = "none"]
    IN  IF S.fut[c] # "cancelled" THEN wake_up_next([T EXCEPT !.value = @ + 1]) ELSE T

(***************************************************************************)
(* Proxy objects.                                                          *)
(***************************************************************************)
Timeouts == 0..MaxTimeout
Amounts == 0..MaxAmount

\* __init__: service_name is the sequence of the dotted segments, <<>> for
\* None; parent is 0 for a proxy the caller constructs
Proxy(service_name, reconnect_timeout, reconnect_amount, request_timeout, parent) ==
    [service_name |-> service_name, id_count |-> 0,
     reconnect_timeout |-> reconnect_timeout, reconnect_amount |-> reconnect_amount,
     request_timeout |-> request_timeout, parent |-> parent]

\* the bound proxy is named by the last segment only
getattr_drops_prefix(h, name) ==
    IF name \in DunderNames THEN Raised("AttributeError")
    ELSE Proxy(<<name>>, DEFAULT_RECONNECT_TIMEOUT,
               DEFAULT_RECONNECT_AMOUNT, DEFAULT_REQUEST_TIMEOUT, h)

\* the bound proxy goes on from its parent's request counter
getattr_keeps_counter(h, name) ==
    [Proxy(Append(handles[h].service_name, name), DEFAULT_RECONNECT_TIMEOUT,
           DEFAULT_RECONNECT_AMOUNT, DEFAULT_REQUEST_TIMEOUT, h)
       EXCEPT !.id_count = handles[h].id_count]

\* __getattr__: AsyncAuthServiceProxy(self.service_url, name), the other
\* parameters of __init__ take their defaults
getattr(h, name) ==
    IF name \in DunderNames THEN Raised("AttributeError")
    ELSE Proxy(Append(handles[h].service_name, name), DEFAULT_RECONNECT_TIMEOUT,
               DEFAULT_RECONNECT_AMOUNT, DEFAULT_REQUEST_TIMEOUT, h)

RootProxy(t, a) == Proxy(<<>>, t, a, DEFAULT_REQUEST_TIMEOUT, 0)
DefaultRoot == RootProxy(DEFAULT_RECONNECT_TIMEOUT, DEFAULT_RECONNECT_AMOUNT)

HandleIds == DOMAIN handles

NoCall ==
    [pc |-> "idle", handle |-> 0, args |-> None, postdata |-> None, i |-> 0,
     log |-> <<>>, inBody |-> FALSE, cancel |-> FALSE, response |-> None,
     outcome |-> NoOutcome]

\* an entry of a call's log: what happened at attempt i; t is the seconds of
\* a sleep and the id in the data of a send
Ev(ev, i, t) == [ev |-> ev, i |-> i, t |-> t]

InitRest ==
    /\ calls = [c \in CallIds |-> NoCall]
    /\ sem_value = MAXIMUM_NUMBER_OF_CONCURRENT_RPC_REQUESTS
    /\ sem_waiters = <<>>
    /\ fut = [c \in CallIds |-> "none"]

SetSem(S) ==
    /\ sem_value' = S.value
    /\ sem_waiters' = S.waiters
    /\ fut' = S.fut

\* the permit is released on a return only, not when an exception leaves
\* the block
aexit_return_only(S, outcome) ==
    IF outcome.kind = "raised"
    THEN [sem |-> S, outcome |-> outcome]
    ELSE [sem |-> release(S), outcome |-> outcome]

\* the release at the end of the block puts the permit back and wakes nobody
aexit_wakes_nobody(S, outcome) ==
    [sem |-> [S EXCEPT !.value = @ + 1], outcome |-> outcome]

\* BoundedSemaphore.release as __aexit__ calls it: ValueError when the
\* counter is already at its bound
aexit(S, outcome) ==
    IF S.value >= MAXIMUM_NUMBER_OF_CONCURRENT_RPC_REQUESTS
    THEN [sem |-> S, outcome |-> Raised("ValueError")]
    ELSE [sem |-> release(S), outcome |-> outcome]

\* the call leaves the async with block with the outcome
Exit(c, cs, S, outcome) ==
    LET x == aexit(S, outcome)
    IN  /\ calls' = [cs EXCEPT ![c].pc = "done", ![c].inBody = FALSE,
                               ![c].outcome = x.outcome]
        /\ SetSem(x.sem)

\* exhaustion raises instead of returning
Attempt_raises_when_exhausted(c, cs, S, i) ==
    LET h == cs[c].handle
    IN  IF ~InRange(i, handles[h].reconnect_amount)
        THEN Exit(c, cs, S, Raised("RetryExhaustedError"))
        ELSE IF i > 0
        THEN /\ calls' = [cs EXCEPT ![c].pc = "sleeping", ![c].i = i,
                    ![c].log = Append(@, Ev("sleep", i,
                                 SleepTime(handles[h].reconnect_timeout, i)))]
             /\ SetSem(S)
        ELSE /\ calls' = [cs EXCEPT ![c].pc = "posting", ![c].i = i,
                    ![c].log = Append(@, Ev("send", i, cs[c].postdata.id))]
             /\ SetSem(S)

\* the backoff sleep gives the permit up
Attempt_sleeps_without_permit(c, cs, S, i) ==
    LET h == cs[c].handle
    IN  IF ~InRange(i, handles[h].reconnect_amount)
        THEN Exit(c, cs, S, Returned(None))
        ELSE IF i > 0
        THEN /\ calls' = [cs EXCEPT ![c].pc = "sleeping", ![c].i = i, ![c].inBody = FALSE,
                    ![c].log = Append(@, Ev("sleep", i,
                                 SleepTime(handles[h].reconnect_timeout, i)))]
             /\ SetSem(release(S))
        ELSE /\ calls' = [cs EXCEPT ![c].pc = "posting", ![c].i = i,
                    ![c].log = Append(@, Ev("send", i, cs[c].postdata.id))]
             /\ SetSem(S)

\* the first attempt is made before reconnect_amount is looked at
Attempt_tries_once(c, cs, S, i) ==
    LET h == cs[c].handle
    IN  IF i > 0 /\ ~InRange(i, handles[h].reconnect_amount)
        THEN Exit(c, cs, S, Returned(None))
        ELSE IF i > 0
        THEN /\ calls' = [cs EXCEPT ![c].pc = "sleeping", ![c].i = i,
                    ![c].log = Append(@, Ev("sleep", i,
                                 SleepTime(handles[h].reconnect_timeout, i)))]
             /\ SetSem(S)
        ELSE /\ calls' = [cs EXCEPT ![c].pc = "posting", ![c].i = i,
                    ![c].log = Append(@, Ev("send", i, cs[c].postdata.id))]
             /\ SetSem(S)

\* lines 83-102: the loop reaches attempt i
Attempt(c, cs, S, i) ==
    LET h == cs[c].handle
    IN  IF ~InRange(i, handles[h].reconnect_amount)
        THEN \* for ... else: "Reconnect tries exceeded", return
             Exit(c, cs, S, Returned(None))
        ELSE IF i > 0
        THEN /\ calls' = [cs EXCEPT ![c].pc = "sleeping", ![c].i = i,
                    ![c].log = Append(@, Ev("sleep", i,
                                 SleepTime(handles[h].reconnect_timeout, i)))]
             /\ SetSem(S)
        ELSE /\ calls' = [cs EXCEPT ![c].pc = "posting", ![c].i = i,
                    ![c].log = Append(@, Ev("send", i, cs[c].postdata.id))]
             /\ SetSem(S)

\* lines 70-83: the body of the async with block up to the loop
Body(c, h, args, S) ==
    LET n == handles[h].id_count + 1
        postdata == dumps(handles[h].service_name, args, n)
        cs == [calls EXCEPT ![c].handle = h, ![c].args = args, ![c].inBody = TRUE,
                            ![c].postdata = postdata]
    IN  /\ handles' = [handles EXCEPT ![h].id_count = n]
        /\ IF postdata = Raised("TypeError")
           THEN Exit(c, [cs EXCEPT ![c].postdata = None], S, postdata)
           ELSE Attempt(c, cs, S, 0)

(***************************************************************************)
(* Actions.                                                                *)
(***************************************************************************)
\* a caller constructs another root proxy
NewRoot(t, a) ==
    /\ Len(handles) < MaxHandles
    /\ handles' = Append(handles, RootProxy(t, a))
    /\ UNCHANGED <<calls, sem_value, sem_waiters, fut>>

\* proxy.name: a new proxy, or AttributeError and nothing new
Bind(h, name) ==
    /\ Len(handles) < MaxHandles
    /\ handles' = IF getattr(h, name) = Raised("AttributeError") THEN handles
                  ELSE Append(handles, getattr(h, name))
    /\ UNCHANGED <<calls, sem_value, sem_waiters, fut>>

\* __call__ without the async with: the call takes no permit
Call_without_gate(c, h, args) ==
    /\ calls[c].pc = "idle"
    /\ \A d \in CallIds : d < c => calls[d].pc # "idle"
    /\ Body(c, h, args, Sem)

\* task c starts proxy(*args): up to its first suspension
Call(c, h, args) ==
    /\ calls[c].pc = "idle"
    \* tasks are interchangeable: they start in the order of their names
    /\ \A d \in CallIds : d < c => calls[d].pc # "idle"
    /\ IF locked(Sem)
       THEN /\ calls' = [calls EXCEPT ![c].pc = "waiting", ![c].handle = h,
                                      ![c].args = args]
            /\ SetSem(acquire_wait(Sem, c))
            /\ UNCHANGED handles
       ELSE Body(c, h, args, acquire_now(Sem))

\* the future of a waiting call has its result: acquire() returns
Resume(c) ==
    /\ calls[c].pc = "waiting"
    /\ ~calls[c].cancel
    /\ fut[c] = "result"
    /\ Body(c, calls[c].handle, calls[c].args, acquire_resume(Sem, c))

\* the request is built inside the loop: a retry takes the next id
SleepDone_next_id(c) ==
    LET h == calls[c].handle
        n == handles[h].id_count + 1
        postdata == dumps(handles[h].service_name, calls[c].args, n)
    IN  /\ calls[c].pc = "sleeping"
        /\ calls' = [calls EXCEPT ![c].pc = "posting", ![c].postdata = postdata,
                                  ![c].log = Append(@, Ev("send", calls[c].i, postdata.id))]
        /\ handles' = [handles EXCEPT ![h].id_count = n]
        /\ UNCHANGED <<sem_value, sem_waiters, fut>>

\* asyncio.sleep returns
SleepDone(c) ==
    /\ calls[c].pc = "sleeping"
    /\ calls' = [calls EXCEPT ![c].pc = "posting",
                              ![c].log = Append(@, Ev("send", calls[c].i, calls[c].postdata.id))]
    /\ UNCHANGED <<handles, sem_value, sem_waiters, fut>>

\* client.post raises: the except clause, then the next round of the loop
PostFails(c, fault) ==
    /\ calls[c].pc = "posting"
    /\ Attempt(c, [calls EXCEPT ![c].log = Append(@, Ev(fault, calls[c].i, 0))],
               Sem, calls[c].i + 1)
    /\ UNCHANGED handles

\* response.json() is inside the try block: a body that does not decode is
\* one more failed attempt
PostReturns_decode_retried(c, body) ==
    /\ calls[c].pc = "posting"
    /\ IF Respond(body) = Raised("JSONDecodeError")
       THEN Attempt(c, [calls EXCEPT ![c].response = body,
                           ![c].log = Append(@, Ev("JSONDecodeError", calls[c].i, 0))],
                    Sem, calls[c].i + 1)
       ELSE Exit(c, [calls EXCEPT ![c].response = body], Sem, Respond(body))
    /\ UNCHANGED handles

\* a call that needed a retry reports the failure it retried
PostReturns_reports_fault(c, body) ==
    /\ calls[c].pc = "posting"
    /\ Exit(c, [calls EXCEPT ![c].response = body], Sem,
            IF calls[c].i > 0 THEN Raised(calls[c].log[2].ev) ELSE Respond(body))
    /\ UNCHANGED handles

\* client.post returns a response: break, then lines 103-110
PostReturns(c, body) ==
    /\ calls[c].pc = "posting"
    /\ Exit(c, [calls EXCEPT ![c].response = body], Sem, Respond(body))
    /\ UNCHANGED handles

\* The surrounding task is cancelled while the call waits for a permit:
\* Task.cancel() cancels the future the task waits for if it is pending, and
\* otherwise leaves the CancelledError for the task's next step.
Cancel(c) ==
    /\ calls[c].pc = "waiting"
    /\ ~calls[c].cancel
    /\ calls' = [calls EXCEPT ![c].cancel = TRUE]
    /\ fut' = IF fut[c] = "pending" THEN [fut EXCEPT ![c] = "cancelled"] ELSE fut
    /\ UNCHANGED <<handles, sem_value, sem_waiters>>

\* the cancelled waiter runs again: acquire() raises CancelledError
Cancelled(c) ==
    /\ calls[c].pc = "waiting"
    /\ calls[c].cancel
    /\ calls' = [calls EXCEPT ![c].pc = "done", ![c].outcome = Raised("CancelledError")]
    /\ SetSem(acquire_cancelled(Sem, c))
    /\ UNCHANGED handles

\* "except BaseException": the cancellation is logged and retried like a
\* failed send
CancelInBody_swallowed(c) ==
    /\ calls[c].pc \in {"sleeping", "posting"}
    /\ Attempt(c, [calls EXCEPT ![c].cancel = TRUE,
                        ![c].log = Append(@, Ev("CancelledError", calls[c].i, 0))],
               Sem, calls[c].i + 1)
    /\ UNCHANGED handles

\* The surrounding task is cancelled while the call sleeps or awaits the
\* response: CancelledError is raised at the await.  It is a BaseException,
\* which "except Exception" (line 93) does not catch, so it leaves the async
\* with block.  Task.cancel() itself changes nothing the other tasks see, so
\* the request and the task's next step are one step here.
CancelInBody(c) ==
    /\ calls[c].pc \in {"sleeping", "posting"}
    /\ Exit(c, [calls EXCEPT ![c].cancel = TRUE], Sem, Raised("CancelledError"))
    /\ UNCHANGED handles

\* an undecodable body, a result and a remote error
SomeBodies ==
    {Malformed, Envelope(None, JHeight(12345)),
     Envelope(JErr(JNum(-32601), JStr(<<"method", "not", "found">>)), None)}

\* More tasks than permits call through two proxies: the one the program
\* constructs (line 233) and either a proxy bound from it or a second root.
Init ==
    /\ handles \in {<<DefaultRoot,
                      Proxy(<<"masternode">>, DEFAULT_RECONNECT_TIMEOUT,
                            DEFAULT_RECONNECT_AMOUNT, DEFAULT_REQUEST_TIMEOUT, 1)>>,
                    <<DefaultRoot, RootProxy(1, 1)>>}
    /\ InitRest

Next ==
    \/ \E c \in CallIds, h \in HandleIds, args \in {PlainArgs, ObjectArg} : Call(c, h, args)
    \/ \E c \in CallIds : Resume(c)
    \/ \E c \in CallIds : SleepDone(c)
    \/ \E c \in CallIds : PostFails(c, "ConnectError")
    \/ \E c \in CallIds, body \in SomeBodies : PostReturns(c, body)
    \/ \E c \in CallIds : Cancel(c)
    \/ \E c \in CallIds : Cancelled(c)
    \/ \E c \in CallIds : CancelInBody(c)

Spec == Init /\ [][Next]_vars

\* A few tasks, no more than there are permits, call through proxies that are
\* constructed and bound as the run goes; every send gets a response.
InitIds ==
    /\ handles = <<DefaultRoot>>
    /\ InitRest

NextIds ==
    \/ NewRoot(1, 1)
    \/ \E h \in HandleIds, name \in Names \cup DunderNames : Bind(h, name)
    \/ \E c \in 1..IdCalls, h \in HandleIds, args \in {PlainArgs, ObjectArg} : Call(c, h, args)
    \/ \E c \in CallIds : PostReturns(c, Envelope(None, JHeight(12345)))

SpecIds == InitIds /\ [][NextIds]_vars

\* One task calls through a proxy of any policy and meets every response.
InitCall ==
    /\ \E t \in Timeouts \cup {DEFAULT_RECONNECT_TIMEOUT}, a \in Amounts :
          handles = <<RootProxy(t, a)>>
    /\ InitRest

NextCall ==
    \/ \E h \in HandleIds, name \in Names : Bind(h, name)
    \/ \E h \in HandleIds, args \in ArgValues : Call(1, h, args)
    \/ SleepDone(1)
    \/ \E fault \in TransportFaults : PostFails(1, fault)
    \/ \E body \in Bodies : PostReturns(1, body)

SpecCall == InitCall /\ [][NextCall]_vars

\* More tasks than permits call through the root proxy, and the event loop
\* is fair: a task whose future is done runs again, a timer that was set
\* fires, and every send returns a response or fails.  Nothing obliges a
\* caller to launch a call or to cancel one.
LiveCalls == 1..NLive
LiveBodies ==
    {Envelope(None, JHeight(12345)),
     Envelope(JErr(JNum(-32601), JStr(<<"method", "not", "found">>)), None)}

InitLive ==
    /\ handles = <<DefaultRoot>>
    /\ InitRest

NextLive ==
    \/ \E c \in LiveCalls : Call(c, 1, PlainArgs)
    \/ \E c \in LiveCalls : Resume(c)
    \/ \E c \in LiveCalls : SleepDone(c)
    \/ \E c \in LiveCalls : PostFails(c, "ConnectError")
    \/ \E c \in LiveCalls, body \in LiveBodies : PostReturns(c, body)
    \/ \E c \in LiveCalls : Cancel(c)
    \/ \E c \in LiveCalls : Cancelled(c)
    \/ \E c \in LiveCalls : CancelInBody(c)

FairLoop ==
    \A c \in LiveCalls :
        /\ WF_vars(Resume(c))
        /\ WF_vars(Cancelled(c))
        /\ WF_vars(SleepDone(c))
        /\ WF_vars(PostFails(c, "ConnectError") \/ \E body \in LiveBodies : PostReturns(c, body))

SpecLive == InitLive /\ [][NextLive]_vars /\ FairLoop

\* More tasks than permits call through the root proxy and through a proxy
\* constructed with no attempts at all, reconnect_amount 0 or negative.
ZeroAmounts == {-1, 0}

InitZero ==
    /\ \E a \in ZeroAmounts : handles = <<DefaultRoot, RootProxy(1, a)>>
    /\ InitRest

NextZero ==
    \/ \E c \in CallIds, h \in HandleIds : Call(c, h, PlainArgs)
    \/ \E c \in CallIds : Resume(c)
    \/ \E c \in CallIds : PostFails(c, "ConnectError")
    \/ \E c \in CallIds : SleepDone(c)
    \/ \E c \in CallIds : PostReturns(c, Envelope(None, JHeight(12345)))

SpecZero == InitZero /\ [][NextZero]_vars

(***************************************************************************)
(* Properties.                                                             *)
(***************************************************************************)
Capacity == MAXIMUM_NUMBER_OF_CONCURRENT_RPC_REQUESTS
InBody == {c \in CallIds : calls[c].inBody}
Posting == {c \in CallIds : calls[c].pc = "posting"}
Suspended == {c \in CallIds : calls[c].pc \in {"waiting", "sleeping", "posting"}}
Granted == {c \in CallIds : fut[c] = "result"}
Sends(c) == SelectSeq(calls[c].log, LAMBDA e : e.ev = "send")
Done(c) == calls[c].pc = "done"
Last(seq) == seq[Len(seq)]

\* C1: whatever number of calls is launched through whatever proxies, the
\* calls inside the async with block, and so the sends in flight, are never
\* more than the capacity of the gate.
C1_GateBound ==
    /\ Cardinality(InBody) <= Capacity
    /\ Cardinality(Posting) <= Capacity

\* C1 witness: every task has called, the gate is full with all its holders
\* awaiting a response, and a call is kept waiting.
C1_Witness ==
    /\ \A c \in CallIds : calls[c].pc # "idle"
    /\ Cardinality(Posting) = Capacity
    /\ \E c \in CallIds : calls[c].pc = "waiting"
    /\ \E c, d \in Posting : calls[c].handle # calls[d].handle

\* C2: permits are conserved: every permit is free, held by a call inside
\* the block or handed to a woken waiter; release is never called on a full
\* semaphore (ValueError); and with no call in progress all permits are free.
C2_PermitsConserved ==
    /\ sem_value \in 0..Capacity
    /\ sem_value + Cardinality(InBody) + Cardinality(Granted) = Capacity
    /\ \A c \in CallIds : calls[c].outcome # Raised("ValueError")
    /\ \A c \in CallIds : Done(c) => ~calls[c].inBody
    /\ Suspended = {} => sem_value = Capacity

\* C2 witness: all tasks are done, by an exception of the response handling,
\* by a serialization error and by retry exhaustion, and all permits are free.
C2_Witness ==
    /\ \A c \in CallIds : Done(c)
    /\ \E c \in CallIds : calls[c].outcome.kind = "raised" /\ calls[c].response # None
    /\ \E c \in CallIds : calls[c].outcome = Raised("TypeError") /\ calls[c].log = <<>>
    /\ \E c \in CallIds : calls[c].outcome = Returned(None) /\ calls[c].response = None
    /\ sem_value = Capacity

\* C3: a call that has a send in flight or sleeps in backoff holds a permit,
\* and so does every call from its first send until it is done: no state
\* between two attempts of a call finds it without its permit.
C3_PermitHeldThroughout ==
    \A c \in CallIds :
        /\ calls[c].pc \in {"sleeping", "posting"} => calls[c].inBody
        /\ (calls[c].log # <<>> /\ ~Done(c)) => calls[c].inBody
        /\ calls[c].inBody => calls[c].pc \in {"sleeping", "posting"}
        /\ \A p \in DOMAIN calls[c].log :
              (calls[c].log[p].ev = "sleep" /\ ~calls[c].inBody) => Done(c)

\* C3 witness: a call sleeps in backoff holding its permit while the gate is
\* full and another call waits for a permit.
C3_Witness ==
    \E c, d \in CallIds :
        /\ calls[c].pc = "sleeping" /\ calls[c].inBody
        /\ calls[d].pc = "waiting" /\ fut[d] = "pending"
        /\ sem_value = 0

Launched == {c \in CallIds : calls[c].pc # "idle"}
Amount(c) == handles[calls[c].handle].reconnect_amount
Timeout(c) == handles[calls[c].handle].reconnect_timeout
Faults(c) == SelectSeq(calls[c].log, LAMBDA e : e.ev \in TransportFaults)
\* the call got the response to the send it made last and made none after it
AnsweredLastSend(c) ==
    /\ calls[c].log # <<>>
    /\ Last(calls[c].log).ev = "send"
    /\ Len(Sends(c)) = Last(calls[c].log).i + 1
IsEnvelope(body) == body.t = "object"

\* C4: the sends of a call are attempts 0, 1, ... in order and at most
\* reconnect_amount of them; a transport failure of attempt i is followed by
\* attempt i+1 (its backoff sleep, then its send) exactly when
\* i+1 < reconnect_amount, and otherwise ends the call, which has then made
\* exactly reconnect_amount sends and returns without a result.
C4_RetryBound ==
    \A c \in Launched :
        LET log == calls[c].log
            a == Amount(c)
        IN  /\ Len(Sends(c)) <= a
            /\ \A k \in DOMAIN Sends(c) : Sends(c)[k].i = k - 1
            /\ \A p \in DOMAIN log :
                  log[p].ev \in TransportFaults =>
                     IF log[p].i + 1 < a
                     THEN /\ p < Len(log)
                          /\ log[p + 1].ev = "sleep" /\ log[p + 1].i = log[p].i + 1
                          /\ \/ p + 1 = Len(log) /\ calls[c].pc = "sleeping"
                             \/ p + 1 < Len(log) /\ log[p + 2] = Ev("send", log[p].i + 1, calls[c].postdata.id)
                     ELSE /\ p = Len(log)
                          /\ Done(c)
                          /\ calls[c].outcome = Returned(None)
                          /\ Len(Sends(c)) = a

\* C4 witness: a call on a proxy of the default policy failed twice: two
\* sends, no third, and it is done.
C4_Witness ==
    \E c \in Launched :
        /\ Amount(c) = 2
        /\ Done(c)
        /\ Len(Faults(c)) = 2
        /\ Len(Sends(c)) = 2

\* C5: attempt 0 is sent first thing, with no sleep before it; the send of
\* every attempt i > 0 comes right after a sleep of reconnect_timeout * 2^i,
\* which comes right after the failure of attempt i-1, whatever its cause.
C5_Backoff ==
    \A c \in Launched :
        LET log == calls[c].log
        IN  \A p \in DOMAIN log :
               /\ log[p].ev = "send" =>
                     IF log[p].i = 0 THEN p = 1
                     ELSE /\ p >= 3
                          /\ log[p - 1] = Ev("sleep", log[p].i, Timeout(c) * (2 ^ log[p].i))
                          /\ log[p - 2].ev \in TransportFaults
                          /\ log[p - 2].i = log[p].i - 1
               /\ log[p].ev = "sleep" =>
                     /\ log[p].i > 0
                     /\ log[p].t = Timeout(c) * (2 ^ log[p].i)
                     /\ log[p].t >= Timeout(c)

\* C5 witness: attempt 2 was sent after sleeps of 30 and 60, the two
\* failures before it having different causes.
C5_Witness ==
    \E c \in Launched :
        /\ Timeout(c) = 15
        /\ Len(Sends(c)) = 3
        /\ calls[c].log[3] = Ev("sleep", 1, 30)
        /\ calls[c].log[6] = Ev("sleep", 2, 60)
        /\ calls[c].log[2].ev # calls[c].log[5].ev

\* C6: an envelope whose error is not null makes the call raise a
\* JSONRPCException with the code and the message of that error, and the
\* call makes no further send.
C6_RemoteError ==
    \A c \in Launched :
        (calls[c].response # None /\ IsEnvelope(calls[c].response)
           /\ calls[c].response.error \notin {None, Missing}) =>
            /\ Done(c)
            /\ AnsweredLastSend(c)
            /\ calls[c].outcome.kind = "raised"
            /\ calls[c].outcome.exc = "JSONRPCException"
            /\ calls[c].outcome.error = calls[c].response.error

\* For an error that is a JSON object the exception carries the code and
\* the message of the object, None for the one the object lacks.
RemoteErrorObject ==
    \A c \in Launched :
        (calls[c].response # None /\ IsEnvelope(calls[c].response)
           /\ calls[c].response.error \in ErrorObjects) =>
            /\ Done(c)
            /\ AnsweredLastSend(c)
            /\ calls[c].outcome.exc = "JSONRPCException"
            /\ calls[c].outcome.code =
                  (IF calls[c].response.error.code = Missing THEN None
                   ELSE calls[c].response.error.code)
            /\ calls[c].outcome.message =
                  (IF calls[c].response.error.message = Missing THEN None
                   ELSE calls[c].response.error.message)

\* C7: an envelope with a null error and no result makes the call raise a
\* JSONRPCException of code -343 and message "missing JSON-RPC result", and
\* the call makes no further send.
C7_MissingResult ==
    \A c \in Launched :
        (calls[c].response # None /\ IsEnvelope(calls[c].response)
           /\ calls[c].response.error = None /\ calls[c].response.result = Missing) =>
            /\ Done(c)
            /\ AnsweredLastSend(c)
            /\ calls[c].outcome.kind = "raised"
            /\ calls[c].outcome.exc = "JSONRPCException"
            /\ calls[c].outcome.code = JNum(-343)
            /\ calls[c].outcome.message = JStr(<<"missing", "JSON-RPC", "result">>)

\* C7 witness: the second attempt of a call got {"error": null} and the
\* call raised.
C7_Witness ==
    \E c \in Launched :
        /\ calls[c].response = Envelope(None, Missing)
        /\ Len(Sends(c)) = 2
        /\ calls[c].outcome.kind = "raised"

\* C8: an envelope with a null error and a result makes the call return
\* that result as it is, whichever attempt got the response.
C8_ResultReturned ==
    \A c \in Launched :
        (calls[c].response # None /\ IsEnvelope(calls[c].response)
           /\ calls[c].response.error = None /\ calls[c].response.result # Missing) =>
            /\ Done(c)
            /\ AnsweredLastSend(c)
            /\ calls[c].outcome = Returned(calls[c].response.result)

\* C8 witness: the third attempt of a call got {"error": null, "result":
\* {"height": 12345}} and the call returned {"height": 12345}.
C8_Witness ==
    \E c \in Launched :
        /\ calls[c].response = Envelope(None, JHeight(12345))
        /\ Len(Sends(c)) = 3
        /\ calls[c].outcome = Returned(JHeight(12345))

\* C9: a call all of whose reconnect_amount attempts failed at transport
\* level is done, returned None without raising, and holds no permit.
C9_ExhaustedReturnsNone ==
    \A c \in Launched :
        (Amount(c) >= 1 /\ Len(Faults(c)) = Amount(c)) =>
            /\ Done(c)
            /\ calls[c].outcome = Returned(None)
            /\ Last(calls[c].log).ev \in TransportFaults
            /\ Last(calls[c].log).i = Amount(c) - 1
            /\ ~calls[c].inBody
            /\ sem_value + Cardinality(InBody \ {c}) + Cardinality(Granted) = Capacity

\* C9 witness: the three attempts of a call failed and the gate is free
\* again.
C9_Witness ==
    \E c \in Launched :
        /\ Amount(c) = 3
        /\ Len(Faults(c)) = 3
        /\ calls[c].outcome = Returned(None)
        /\ sem_value = Capacity

\* the calls that went through the gate on proxy h, and those of them that
\* built a request
Entered(h) == {c \in CallIds : calls[c].handle = h /\ calls[c].pc \notin {"idle", "waiting"}}
Built(h) == {c \in Entered(h) : calls[c].postdata # None}

\* C10: on every proxy the ids of the requests are distinct and lie in
\* 1..id_count, id_count being the number of calls made on that proxy; a
\* call takes the id one above the proxy's counter, 1 on a proxy not called
\* before and above every id sent on that proxy before, and touches no
\* other proxy; a proxy that is constructed or bound starts at counter 0
\* and leaves the others as they are.
C10_RequestIds ==
    /\ [](\A h \in HandleIds :
            /\ \A c, d \in Built(h) : c # d => calls[c].postdata.id # calls[d].postdata.id
            /\ \A c \in Built(h) : calls[c].postdata.id \in 1..handles[h].id_count
            /\ handles[h].id_count = Cardinality(Entered(h)))
    /\ [][/\ \A c \in CallIds :
               (calls[c].postdata = None /\ calls'[c].postdata # None) =>
                  LET h == calls'[c].handle
                  IN  /\ calls'[c].postdata.id = handles[h].id_count + 1
                      /\ handles[h].id_count = 0 => calls'[c].postdata.id = 1
                      /\ \A d \in Built(h) : calls[d].postdata.id < calls'[c].postdata.id
                      /\ \A g \in HandleIds \ {h} : handles'[g] = handles[g]
          /\ Len(handles') > Len(handles) =>
                  /\ handles'[Len(handles')].id_count = 0
                  /\ \A g \in HandleIds : handles'[g] = handles[g]]_vars

\* Two calls on one proxy are in flight with the ids 1 and 2, and a proxy
\* bound from it has counter 0.
ConcurrentIds ==
    \E h, g \in HandleIds :
        /\ handles[g].parent = h
        /\ handles[g].id_count = 0
        /\ \E c, d \in Posting :
              /\ calls[c].handle = h /\ calls[c].postdata.id = 1
              /\ calls[d].handle = h /\ calls[d].postdata.id = 2

\* C10 witness: a proxy and a proxy bound from it have each sent id 1 in
\* their own first call, and both calls are in flight.
C10_Witness ==
    \E h, g \in HandleIds :
        /\ handles[g].parent = h
        /\ \E c, d \in Posting :
              /\ calls[c].handle = h /\ calls[c].postdata.id = 1
              /\ calls[d].handle = g /\ calls[d].postdata.id = 1
              /\ c < d

\* the segments bound one after the other from the root down to proxy h
RECURSIVE PathFromRoot(_)
PathFromRoot(h) ==
    IF handles[h].parent = 0 THEN <<>>
    ELSE Append(PathFromRoot(handles[h].parent), Last(handles[h].service_name))

\* C11: the method path of a bound proxy is the path of the proxy it was
\* bound from followed by the bound name, so it is the sequence of the names
\* bound from the root; a step that binds leaves every existing proxy (path
\* and request counter), every call and the gate as they are, and a name
\* with two leading and trailing underscores binds nothing.
C11_BindExtendsPath ==
    /\ [](\A h \in HandleIds :
            /\ handles[h].parent = 0 => handles[h].service_name = <<>>
            /\ handles[h].parent # 0 =>
                  /\ handles[h].parent \in 1..(h - 1)
                  /\ handles[h].service_name # <<>>
                  /\ Last(handles[h].service_name) \in Names
                  /\ handles[h].service_name =
                        Append(handles[handles[h].parent].service_name,
                               Last(handles[h].service_name))
                  /\ handles[h].service_name = PathFromRoot(h))
    /\ [][Len(handles') > Len(handles) =>
            /\ Len(handles') = Len(handles) + 1
            /\ \A g \in HandleIds : handles'[g] = handles[g]
            /\ calls' = calls
            /\ sem_value' = sem_value /\ sem_waiters' = sem_waiters /\ fut' = fut]_vars

\* C11 witness: masternode.top was bound from masternode, which was bound
\* from the root; masternode has made a call that is still in flight, with
\* its path and counter as that call left them.
C11_Witness ==
    \E h, g \in HandleIds :
        /\ handles[g].parent = h /\ handles[h].parent # 0
        /\ handles[h].service_name = <<"masternode">>
        /\ handles[g].service_name = <<"masternode", "top">>
        /\ handles[h].id_count = 1
        /\ \E c \in Posting : calls[c].handle = h /\ calls[c].postdata.method = <<"masternode">>

\* C12: a bound proxy has the reconnect_timeout, the reconnect_amount and
\* the request_timeout of the proxy it was bound from, whatever they are, so
\* a call on it sends at most the parent's reconnect_amount times and sleeps
\* the parent's reconnect_timeout * 2^i before attempt i.
C12_PolicyInherited ==
    /\ \A h \in HandleIds : handles[h].parent # 0 =>
          /\ handles[h].reconnect_timeout = handles[handles[h].parent].reconnect_timeout
          /\ handles[h].reconnect_amount = handles[handles[h].parent].reconnect_amount
          /\ handles[h].request_timeout = handles[handles[h].parent].request_timeout
    /\ \A c \in Launched : handles[calls[c].handle].parent # 0 =>
          LET parent == handles[handles[calls[c].handle].parent] IN
          /\ Len(Sends(c)) <= parent.reconnect_amount
          /\ \A k \in 1..Len(calls[c].log) : calls[c].log[k].ev = "sleep" =>
                calls[c].log[k].t = SleepTime(parent.reconnect_timeout, calls[c].log[k].i)

\* what the code does instead: every bound proxy has the default policy
BoundProxyHasDefaults ==
    \A h \in HandleIds : handles[h].parent # 0 =>
        /\ handles[h].reconnect_timeout = DEFAULT_RECONNECT_TIMEOUT
        /\ handles[h].reconnect_amount = DEFAULT_RECONNECT_AMOUNT
        /\ handles[h].request_timeout = DEFAULT_REQUEST_TIMEOUT

\* C13: a call whose response body is not JSON is over with the send that
\* brought that body, whatever attempts its proxy still allows: it raised
\* the decoder's JSONDecodeError, nothing follows that send in its log, and
\* it holds no permit.
C13_DecodeErrorPropagates ==
    \A c \in Launched : calls[c].response = Malformed =>
        /\ Done(c)
        /\ calls[c].outcome = Raised("JSONDecodeError")
        /\ Last(calls[c].log).ev = "send"
        /\ Len(Sends(c)) = Len(Faults(c)) + 1
        /\ ~calls[c].inBody
        /\ c \notin Suspended
        /\ sem_value + Cardinality(InBody) + Cardinality(Granted) = Capacity

\* C13 witness: the first send of a call on a proxy that allows three came
\* back with a body that is not JSON: one send, and the call is over.
C13_Witness ==
    \E c \in Launched :
        /\ Amount(c) = 3
        /\ calls[c].response = Malformed
        /\ Len(Sends(c)) = 1
        /\ calls[c].outcome = Raised("JSONDecodeError")
        /\ sem_value = Capacity

\* C14: a call that got a response at attempt j, after j failed sends, ends
\* as lines 103-110 end for that response alone, whatever j is: with the
\* result of a result envelope, with the JSONRPCException of an error object
\* or of the missing result, never with one of the faults it retried; the
\* failed sends are the sends before the answered one.  A call is done
\* exactly when it has its one outcome, returned or raised, and a call that
\* got no response and is done returned nothing after sending
\* reconnect_amount times.
C14_FaultsInvisible ==
    \A c \in Launched :
        /\ Done(c) <=> calls[c].outcome # NoOutcome
        /\ Done(c) => calls[c].outcome.kind \in {"returned", "raised"}
        /\ calls[c].outcome.kind = "raised" => calls[c].outcome.exc \notin TransportFaults
        /\ calls[c].response # None =>
              /\ Done(c)
              /\ Len(Faults(c)) = Len(Sends(c)) - 1
              /\ \A k \in 1..Len(Faults(c)) : Faults(c)[k].i = k - 1
              /\ Last(calls[c].log) = Last(Sends(c))
              /\ calls[c].outcome = Respond(calls[c].response)
              /\ IsEnvelope(calls[c].response) =>
                    LET error == calls[c].response.error
                        result == calls[c].response.result
                    IN  /\ error = None /\ result # Missing =>
                              calls[c].outcome = Returned(result)
                        /\ error = None /\ result = Missing =>
                              /\ calls[c].outcome.kind = "raised"
                              /\ calls[c].outcome.exc = "JSONRPCException"
                              /\ calls[c].outcome.code = JNum(MISSING_RESULT_CODE)
                        /\ error \in ErrorObjects =>
                              /\ calls[c].outcome.kind = "raised"
                              /\ calls[c].outcome.exc = "JSONRPCException"
                              /\ calls[c].outcome.error = error
        /\ calls[c].response = None /\ Done(c) /\ calls[c].postdata # None =>
              /\ calls[c].outcome = Returned(None)
              /\ Len(Faults(c)) = Len(Sends(c))

\* C14 witness: two sends of a call failed and the third was answered: one
\* such call returned the result of its response and another raised the
\* JSONRPCException of the remote error.
C14_Witness ==
    \E c \in Launched :
        /\ Len(Faults(c)) = 2
        /\ Len(Sends(c)) = 3
        /\ \/ /\ calls[c].response = Envelope(None, JHeight(12345))
              /\ calls[c].outcome = Returned(JHeight(12345))
           \/ /\ calls[c].response \in Envelopes
              /\ calls[c].response.error \in ErrorObjects
              /\ calls[c].outcome.kind = "raised"
              /\ calls[c].outcome.exc = "JSONRPCException"

\* C15: a call whose arguments hold a value json.dumps cannot encode and
\* EncodeDecimal refuses is over as soon as it is past the gate: it raised
\* TypeError, it never sent and never slept for a retry, and it holds no
\* permit, so the permits add up to the capacity.
C15_SerializationError ==
    \A c \in Launched : calls[c].args = ObjectArg /\ calls[c].pc # "waiting" =>
        /\ Done(c)
        /\ calls[c].outcome = Raised("TypeError") \/ calls[c].cancel
        /\ calls[c].log = <<>>
        /\ calls[c].postdata = None
        /\ calls[c].response = None
        /\ ~calls[c].inBody
        /\ sem_value + Cardinality(InBody) + Cardinality(Granted) = Capacity

\* C15 witness: a call with such an argument on a proxy that allows two
\* attempts raised TypeError without a send; it used up the id 1 of its
\* proxy, and every permit is free.
C15_Witness ==
    \E c \in Launched :
        /\ calls[c].args = ObjectArg
        /\ Amount(c) = 2
        /\ calls[c].outcome = Raised("TypeError")
        /\ calls[c].log = <<>>
        /\ handles[calls[c].handle].id_count = 1
        /\ sem_value = Capacity

\* C16: cancellation neither leaks a permit nor gives one back twice.  The
\* permits free, held inside the block and granted to a waiter that has not
\* run yet always add up to the capacity, the counter never exceeds the
\* capacity and no release raises ValueError.  A cancelled call that has run
\* again is done with CancelledError and holds no permit and no place in the
\* queue; one cancelled while it waited never entered the block and never
\* sent; one cancelled while it slept or sent has nothing in its log after the await it was cancelled at: the
\* cancellation was not taken for a failed send.
C16_CancelSafe ==
    /\ sem_value \in 0..Capacity
    /\ sem_value + Cardinality(InBody) + Cardinality(Granted) = Capacity
    /\ \A c \in Launched :
          /\ Done(c) /\ calls[c].outcome.kind = "raised" =>
                calls[c].outcome.exc # "ValueError"
          /\ calls[c].cancel /\ calls[c].pc # "waiting" =>
                /\ Done(c)
                /\ calls[c].outcome = Raised("CancelledError")
                /\ ~calls[c].inBody
                /\ fut[c] = "none"
                /\ \A k \in DOMAIN sem_waiters : sem_waiters[k] # c
                /\ calls[c].response = None
                /\ calls[c].postdata = None => calls[c].log = <<>>
                /\ calls[c].postdata # None =>
                      /\ Last(calls[c].log).ev \in {"sleep", "send"}
                      /\ Last(calls[c].log).i = calls[c].i
                      /\ \A k \in DOMAIN calls[c].log :
                            calls[c].log[k].ev \in {"sleep", "send"} \cup TransportFaults
          /\ calls[c].outcome = Raised("CancelledError") => calls[c].cancel
    /\ (\A c \in CallIds : calls[c].pc \in {"idle", "done"}) => sem_value = Capacity

\* C16 witness: one call was cancelled while it waited at the full gate and
\* another while it held a permit and slept before its retry; every call is
\* over and every permit is free.
C16_Witness ==
    /\ Cardinality(Launched) > Capacity
    /\ \A c \in Launched : Done(c)
    /\ sem_value = Capacity
    /\ \E c, d \in CallIds :
          /\ calls[c].cancel /\ calls[c].postdata = None
          /\ calls[d].cancel /\ calls[d].postdata # None
          /\ Last(calls[d].log).ev = "sleep"

\* a waiter was cancelled after release() had handed it the permit and
\* before it ran: the permit is on its way back
CancelledAfterGrant ==
    \E c \in CallIds : calls[c].pc = "waiting" /\ calls[c].cancel /\ fut[c] = "result"

\* C17: under the fair event loop no wakeup is lost: a call that waits at
\* the gate comes to hold a permit, unless its task is cancelled while it
\* waits, and every call that was launched comes to its end, however many
\* more calls than permits were launched.
C17_NoLostWakeup ==
    \A c \in LiveCalls :
        /\ (calls[c].pc = "waiting") ~> (calls[c].inBody \/ calls[c].cancel)
        /\ (calls[c].pc # "idle") ~> Done(c)

\* C17 witness: every call was launched, more than there are permits; a
\* call has ended and its release has handed the permit to the first
\* waiter, which has not run yet, and the gate still counts as full.
C17_Witness ==
    /\ Launched = LiveCalls
    /\ sem_value = 0
    /\ Cardinality(InBody) = Capacity - 1
    /\ \E c, d \in CallIds :
          /\ Done(c) /\ ~calls[c].cancel
          /\ calls[d].pc = "waiting" /\ fut[d] = "result" /\ ~calls[d].cancel

\* C18: a call raises the JSONRPCException of a remote error only for a
\* response whose error field is there and not null; a call whose response
\* is an object without an error field raises the JSONRPCException of the
\* missing result (-343) when the result is missing too, and otherwise
\* returns the result, and ends in no other way.
C18_AbsentErrorField ==
    \A c \in Launched : IsEnvelope(calls[c].response) =>
        LET error == calls[c].response.error
            result == calls[c].response.result
        IN  /\ (/\ calls[c].outcome.kind = "raised"
                /\ calls[c].outcome.exc = "JSONRPCException"
                /\ calls[c].outcome.error # MissingResult)
                   => error \notin {Missing, None}
            /\ error = Missing =>
                  IF result = Missing
                  THEN calls[c].outcome = JSONRPCException(MissingResult)
                  ELSE calls[c].outcome = Returned(result)

\* what the code does instead: the lookup of the error field fails
AbsentErrorFieldRaisesKeyError ==
    \A c \in Launched :
        IsEnvelope(calls[c].response) /\ calls[c].response.error = Missing =>
            /\ calls[c].outcome = Raised("KeyError")
            /\ Done(c)
            /\ AnsweredLastSend(c)
            /\ sem_value = Capacity

\* the calls that went through the gate on proxy h: launched on it, not
\* waiting and not cancelled while they waited
PastGate(h) ==
    {c \in CallIds : /\ calls[c].handle = h
                     /\ calls[c].pc \notin {"idle", "waiting"}
                     /\ ~(calls[c].cancel /\ calls[c].postdata = None)}

\* C19: the request of a call is built once: every send of the call, the
\* first and each retry, carries the id the call took when it entered; and the counter of a proxy is the number of calls that
\* went through the gate on it, whatever number of sends each of them made.
C19_OneIdPerCall ==
    /\ \A c \in Launched :
          \A k \in DOMAIN Sends(c) :
              /\ Sends(c)[k].t = calls[c].postdata.id
              /\ Sends(c)[k].t = Sends(c)[1].t
              /\ Sends(c)[k].t \in 1..handles[calls[c].handle].id_count
    /\ \A h \in HandleIds : handles[h].id_count = Cardinality(PastGate(h))
    /\ \A c, d \in Launched :
          (/\ c # d /\ calls[c].handle = calls[d].handle
           /\ calls[c].postdata # None /\ calls[d].postdata # None)
             => calls[c].postdata.id # calls[d].postdata.id

\* C19 witness: two calls on the root proxy are each at their second send,
\* one with id 1 both times and the other with id 2 both times, and the
\* proxy's counter is 2.
C19_Witness ==
    \E c, d \in Posting :
        /\ calls[c].handle = 1 /\ calls[d].handle = 1
        /\ Len(Sends(c)) = 2 /\ Len(Sends(d)) = 2
        /\ Sends(c)[1].t = 1 /\ Sends(c)[2].t = 1
        /\ Sends(d)[1].t = 2 /\ Sends(d)[2].t = 2
        /\ handles[1].id_count = 2

\* C20: a call on a proxy whose reconnect_amount is 0 or negative goes
\* through the gate like any other: launched at a full gate it waits, and
\* once past the gate it is over at once: it took the proxy's next id and
\* built its request, never slept, never sent, returned None without
\* raising, and gave its permit back.
C20_NoAttempts ==
    /\ [](/\ sem_value + Cardinality(InBody) + Cardinality(Granted) = Capacity
          /\ \A h \in HandleIds : handles[h].id_count = Cardinality(PastGate(h))
          /\ \A c \in Launched : Amount(c) <= 0 =>
                /\ calls[c].pc \in {"waiting", "done"}
                /\ calls[c].log = <<>>
                /\ calls[c].response = None
                /\ ~calls[c].inBody
                /\ Done(c) =>
                      /\ calls[c].outcome = Returned(None)
                      /\ calls[c].postdata # None
                      /\ calls[c].postdata.id \in 1..handles[calls[c].handle].id_count)
    /\ [][\A c \in CallIds :
            (/\ calls[c].pc = "idle" /\ calls'[c].pc # "idle"
             /\ handles[calls'[c].handle].reconnect_amount <= 0) =>
                IF sem_value = 0 \/ sem_waiters # <<>>
                THEN /\ calls'[c].pc = "waiting"
                     /\ handles' = handles
                ELSE /\ Done(c)'
                     /\ handles'[calls'[c].handle].id_count =
                           handles[calls'[c].handle].id_count + 1
                     /\ sem_value' = sem_value]_vars

\* C20 witness: a call on the proxy without attempts is over next to a call
\* on the root proxy that is sending and one that was answered: no send,
\* None returned, the proxy's counter at 1 and its permit free again.
C20_Witness ==
    \E c \in Launched, d \in Posting :
        /\ Amount(c) <= 0 /\ Amount(d) > 0
        /\ Done(c) /\ calls[c].outcome = Returned(None)
        /\ calls[c].log = <<>>
        /\ handles[calls[c].handle].id_count = 1
        /\ calls[c].postdata.id = 1
        /\ \E e \in CallIds : Done(e) /\ calls[e].response # None
        /\ sem_value = Capacity - 1

====
